---- MODULE Spec2Model ----
(***************************************************************************)
(* Model of tcp_peer (line-oriented, src/tcp_peer.cpp) and tcp_stream_peer *)
(* (keystroke-oriented, src/unnamed/part_000): two processes, one TCP      *)
(* connection, the select loop of each, the newline framer and the         *)
(* must-fully-send loop.                                                   *)
(*                                                                         *)
(* Three specifications:                                                   *)
(*   FramerSpec  the receive path (append + extract) fed chunk by chunk    *)
(*   SendSpec    one call of send_all_bytes against a send primitive       *)
(*   Spec        two running processes, their operators and the channel    *)
(*   FairSpec    Spec with weak fairness on each process's own steps       *)
(***************************************************************************)
EXTENDS Integers, Sequences, FiniteSets, TLC

VARIABLES
  \* ---- FramerSpec: the receive path as a function of its input
  fInput,          \* the whole byte sequence S
  fFed,            \* how many bytes of S have been fed so far
  fBuffer,         \* incoming_buffer
  fEmitted,        \* messages printed so far, in order
  fChunks,         \* number of chunks fed
  \* ---- SendSpec: one call of send_all_bytes
  sText,           \* the message (text / data,len)
  sCap,            \* the most the send primitive accepts per call
  sOff,            \* data - text.data()
  sLeft,           \* left
  sRet,            \* "running", "true", "false"
  sCalls,          \* number of ::send calls issued
  sWire,           \* bytes the primitive accepted, in order
  sIntr,           \* number of calls that ended with EINTR
  sShort,          \* some call accepted fewer than min(cap, left) bytes
  sFault,          \* some call failed (errno other than EINTR) or returned 0
  \* ---- Spec: two processes p \in Procs and the connection between them
  variant,         \* "line" (tcp_peer.cpp) or "key" (tcp_stream_peer.cpp)
  input,           \* what descriptor 0 is: "terminal" or "pipe"
  argv,            \* argv[p]: the arguments after argv[0]
  pc,              \* where process p is
  ready,           \* read_set as select left it: a subset of {"stdin","sock"}
  lfd,             \* listen_fd of p: "none", "open", "closed"
  conn,            \* p's end of the connection: "none","created","open","closed"
  established,     \* p holds a connected socket (accept/connect returned it)
  closeCalls,      \* number of ::close calls p made on its connected socket
  socks,           \* number of ::socket calls p made
  term,            \* terminal of p: "cooked" or "raw"
  kbuf,            \* bytes waiting on descriptor 0 of p (kernel side)
  keof,            \* descriptor 0 of p is at end-of-input for good
  cinbuf,          \* bytes std::cin of p has read ahead and not yet handed out
  eofbit,          \* std::cin of p has met end-of-input (eofbit is set)
  line,            \* getline's partial line, then the text send_all_bytes sends
  off,             \* send_all_bytes: data - text.data()
  left,            \* send_all_bytes: left
  incoming_buffer, \* incoming_buffer of p
  out,             \* what p wrote to standard output, in order
  exit,            \* exit status of p, NoExit while running or when killed
  reason,          \* why the pump of p ended ("" while it has not)
  cerr,            \* the diagnostic p wrote to std::cerr ("" if none)
  typed,           \* every byte the operator of p gave descriptor 0 to read
  stdinErr,        \* errno of a read of descriptor 0 that failed for good
  wire,            \* every byte ::send accepted from p, in order
  rcvd,            \* every byte ::recv returned to p, in order
  intrs            \* number of system calls that ended with EINTR

framerVars == <<fInput, fFed, fBuffer, fEmitted, fChunks>>
sendVars == <<sText, sCap, sOff, sLeft, sRet, sCalls, sWire, sIntr, sShort,
             sFault>>
pumpVars == <<variant, input, argv, pc, ready, lfd, conn, established, closeCalls,
              socks, term, kbuf, keof, cinbuf, eofbit, line, off, left,
              incoming_buffer, out, exit, reason, cerr, typed, stdinErr,
              wire, rcvd, intrs>>
vars == <<framerVars, sendVars, pumpVars>>

----------------------------------------------------------------------------
\* Bytes.  NL is '\n'; Letters stands for the other byte values.  EOT is
\* what Ctrl+D puts on a terminal: the end-of-file character of canonical
\* mode, an ordinary byte in raw mode.
NL == 10
EOT == 4
NUL == 0
Letters == {97, 98}
Byte == Letters \cup {NL}

\* Bounds of the model.
MaxLen == 4        \* FramerSpec: length of the input byte sequence
MaxMsg == 4        \* SendSpec: length of the message handed to send_all_bytes
MaxSendIntr == 1   \* SendSpec: EINTR results per call of send_all_bytes

Min(a, b) == IF a < b THEN a ELSE b

\* All sequences over S of length at most n.
SeqsUpTo(S, n) == UNION {[1..k -> S] : k \in 0..n}

IsPrefix(s, t) == Len(s) <= Len(t) /\ SubSeq(t, 1, Len(s)) = s

----------------------------------------------------------------------------
\* The Framer (tcp_peer.cpp 200-210).

\* std::string::find('\n'): index of the first c in buf (1-based), 0 for npos.
Find(buf, c) ==
  IF \E i \in 1..Len(buf) : buf[i] = c
  THEN CHOOSE i \in 1..Len(buf) : buf[i] = c /\ \A j \in 1..(i-1) : buf[j] # c
  ELSE 0

\* Mutants of the extract loop: one line per call (an `if` for the `while`),
\* and erase(0, pos + 2), which drops the byte after each delimiter.
ExtractOnlyFirst(buf) ==
  LET pos == Find(buf, NL)
  IN IF pos = 0
     THEN [msgs |-> <<>>, buf |-> buf]
     ELSE [msgs |-> <<SubSeq(buf, 1, pos - 1)>>,
           buf |-> SubSeq(buf, pos + 1, Len(buf))]

RECURSIVE ExtractEraseTooMuch(_)
ExtractEraseTooMuch(buf) ==
  LET pos == Find(buf, NL)
  IN IF pos = 0
     THEN [msgs |-> <<>>, buf |-> buf]
     ELSE LET rest == ExtractEraseTooMuch(SubSeq(buf, pos + 2, Len(buf)))
          IN [msgs |-> <<SubSeq(buf, 1, pos - 1)>> \o rest.msgs,
              buf |-> rest.buf]

\* Mutant: one_line = substr(0, pos + 1), the delimiter stays in the message.
RECURSIVE ExtractKeepsDelimiter(_)
ExtractKeepsDelimiter(buf) ==
  LET pos == Find(buf, NL)
  IN IF pos = 0
     THEN [msgs |-> <<>>, buf |-> buf]
     ELSE LET rest == ExtractKeepsDelimiter(SubSeq(buf, pos + 1, Len(buf)))
          IN [msgs |-> <<SubSeq(buf, 1, pos)>> \o rest.msgs, buf |-> rest.buf]

\* Mutant: when no delimiter is left, what remains is printed as a message.
RECURSIVE ExtractFlushesRest(_)
ExtractFlushesRest(buf) ==
  LET pos == Find(buf, NL)
  IN IF pos = 0
     THEN [msgs |-> IF buf = <<>> THEN <<>> ELSE <<buf>>, buf |-> <<>>]
     ELSE LET rest == ExtractFlushesRest(SubSeq(buf, pos + 1, Len(buf)))
          IN [msgs |-> <<SubSeq(buf, 1, pos - 1)>> \o rest.msgs,
              buf |-> rest.buf]

\* while (true) { pos = find('\n'); if npos break; one_line = substr(0,pos);
\*                erase(0, pos+1); print one_line }
\* msgs: the lines printed, in order; buf: incoming_buffer afterwards.
RECURSIVE ExtractLines(_)
ExtractLines(buf) ==
  LET pos == Find(buf, NL)
  IN IF pos = 0
     THEN [msgs |-> <<>>, buf |-> buf]
     ELSE LET one_line == SubSeq(buf, 1, pos - 1)
              rest == ExtractLines(SubSeq(buf, pos + 1, Len(buf)))
          IN [msgs |-> <<one_line>> \o rest.msgs, buf |-> rest.buf]

\* incoming_buffer.append(chunk, n) followed by the extract loop.
ReceivePath(buffer, chunk) == ExtractLines(buffer \o chunk)

----------------------------------------------------------------------------
\* FramerSpec: an input S is cut into non-empty chunks, one per Feed.

FramerInit ==
  /\ fInput \in SeqsUpTo(Byte, MaxLen)
  /\ fFed = 0
  /\ fBuffer = <<>>
  /\ fEmitted = <<>>
  /\ fChunks = 0

Feed ==
  \E n \in 1..(Len(fInput) - fFed) :
    LET chunk == SubSeq(fInput, fFed + 1, fFed + n)
        r == ReceivePath(fBuffer, chunk)
    IN /\ fFed' = fFed + n
       /\ fBuffer' = r.buf
       /\ fEmitted' = fEmitted \o r.msgs
       /\ fChunks' = fChunks + 1
       /\ UNCHANGED <<fInput, sendVars, pumpVars>>

----------------------------------------------------------------------------
\* send_all_bytes (tcp_peer.cpp 32-47, part_000 74-89).

\* What one ::send call can return.  n > 0: n bytes accepted; n = 0: nothing
\* accepted; n < 0 with errno EINTR, or with another errno (ECONNRESET
\* here).  A call that ends the process with SIGPIPE returns nothing.
SendResults(most) ==
  [n : 1..most, errno : {"none"}]
    \cup {[n |-> 0, errno |-> "none"],
          [n |-> -1, errno |-> "EINTR"],
          [n |-> -1, errno |-> "ECONNRESET"]}

\* Entry of send_all_bytes: data = text.data(); left = text.size(); the loop
\* test `left > 0` decides at once for an empty text.
SendAllEnter(text) ==
  [off |-> 0, left |-> Len(text),
   ret |-> IF Len(text) > 0 THEN "running" ELSE "true"]

\* Mutant: the pointer advances but `left` drops by one only.
SendAllStepLeftByOne(o, l, r) ==
  IF r.n < 0
  THEN [off |-> o, left |-> l, ret |-> IF r.errno = "EINTR" THEN "running" ELSE "false"]
  ELSE IF r.n = 0
  THEN [off |-> o, left |-> l, ret |-> "false"]
  ELSE [off |-> o + r.n, left |-> l - 1,
        ret |-> IF l - 1 > 0 THEN "running" ELSE "true"]

\* Mutant: `data += n` is lost, only `left` follows what was accepted.
SendAllStepNoAdvance(o, l, r) ==
  IF r.n < 0
  THEN [off |-> o, left |-> l, ret |-> IF r.errno = "EINTR" THEN "running" ELSE "false"]
  ELSE IF r.n = 0
  THEN [off |-> o, left |-> l, ret |-> "false"]
  ELSE [off |-> o, left |-> l - r.n,
        ret |-> IF l - r.n > 0 THEN "running" ELSE "true"]

\* One pass of the loop body with r the result of ::send(fd, data, left, 0),
\* then the loop test.  o is data - text.data(), l is left.
SendAllStep(o, l, r) ==
  IF r.n < 0
  THEN IF r.errno = "EINTR"
       THEN [off |-> o, left |-> l, ret |-> "running"]       \* continue
       ELSE [off |-> o, left |-> l, ret |-> "false"]         \* send error
  ELSE IF r.n = 0
  THEN [off |-> o, left |-> l, ret |-> "false"]              \* peer closed
  ELSE [off |-> o + r.n, left |-> l - r.n,
        ret |-> IF l - r.n > 0 THEN "running" ELSE "true"]

\* The bytes ::send(fd, data, left, 0) takes when it returns n > 0: the first
\* n bytes at data.  (A pointer past the end reads nothing the model holds.)
Accepted(text, o, n) == SubSeq(text, o + 1, Min(o + n, Len(text)))

----------------------------------------------------------------------------
\* SendSpec: send_all_bytes(text) against a primitive that takes at most sCap
\* bytes per call and may also be interrupted, fail or take nothing.

SendInit ==
  /\ sText \in SeqsUpTo(Byte, MaxMsg)
  /\ sCap \in 1..MaxMsg
  /\ sOff = SendAllEnter(sText).off
  /\ sLeft = SendAllEnter(sText).left
  /\ sRet = SendAllEnter(sText).ret
  /\ sCalls = 0
  /\ sWire = <<>>
  /\ sIntr = 0
  /\ sShort = FALSE
  /\ sFault = FALSE

SendCallStep(r) ==
  LET s == SendAllStep(sOff, sLeft, r)
  IN /\ sOff' = s.off
     /\ sLeft' = s.left
     /\ sRet' = s.ret
     /\ sCalls' = sCalls + 1
     /\ sWire' = IF r.n > 0 THEN sWire \o Accepted(sText, sOff, r.n) ELSE sWire
     /\ UNCHANGED <<sText, sCap, framerVars, pumpVars>>

\* ::send accepts n bytes, 1 <= n <= min(cap, left requested).
SendAccepts ==
  /\ sRet = "running"
  /\ \E n \in 1..Min(sCap, sLeft) :
       /\ SendCallStep([n |-> n, errno |-> "none"])
       /\ sShort' = (sShort \/ n < Min(sCap, sLeft))
  /\ UNCHANGED <<sIntr, sFault>>

SendInterrupted ==
  /\ sRet = "running"
  /\ sIntr < MaxSendIntr
  /\ SendCallStep([n |-> -1, errno |-> "EINTR"])
  /\ sIntr' = sIntr + 1
  /\ UNCHANGED <<sShort, sFault>>

SendFails ==
  /\ sRet = "running"
  /\ SendCallStep([n |-> -1, errno |-> "ECONNRESET"])
  /\ sFault' = TRUE
  /\ UNCHANGED <<sIntr, sShort>>

SendReturnsZero ==
  /\ sRet = "running"
  /\ SendCallStep([n |-> 0, errno |-> "none"])
  /\ sFault' = TRUE
  /\ UNCHANGED <<sIntr, sShort>>

----------------------------------------------------------------------------
\* The two processes.

Procs == {1, 2}
Other(p) == IF p = 1 THEN 2 ELSE 1

MaxTyped == 2      \* bytes the two operators deliver in total
MaxEot == 2        \* times the two operators press Ctrl+D in total
MaxKeys == 3       \* keys the two operators press in total, of both kinds
MaxIntr == 1       \* system calls of the pumps that end with EINTR, in total
NoExit == 0 - 1
NoFault == 0 - 1

\* Command lines (argv[1..]); argc is Len + 1.
ArgvAll ==
  { <<>>,
    <<"--listen">>,
    <<"--listen", "3333">>,
    <<"--listen", "abc">>,
    <<"--connect", "127.0.0.1">>,
    <<"--connect", "127.0.0.1", "3333">>,
    <<"--connect", "localhost", "3333">>,
    <<"--bogus", "3333">> }
ArgvPeer == <<"--connect", "127.0.0.1", "3333">>

\* std::stoi: a number, or std::invalid_argument which nothing catches.
StoiOk(s) == s \in {"3333"}
\* inet_pton(AF_INET, host): 1 for a dotted quad only.
InetPtonOk(h) == h \in {"127.0.0.1"}

\* Mutant: the test of argv[1] is lost, any two arguments mean --listen.
IsListenAnyFlag(a) == Len(a) + 1 >= 3

\* main's two tests on argc and argv[1].
IsListen(a) == Len(a) + 1 >= 3 /\ a[1] = "--listen"
IsConnect(a) == ~IsListen(a) /\ Len(a) + 1 >= 4 /\ a[1] = "--connect"

Running == {"accept", "connect", "connected", "select", "stdin", "getline",
            "send", "recv"}
InPump == {"select", "stdin", "getline", "send", "recv"}
Ended == {"exited", "killed", "aborted"}

\* Bytes sent to p that p has not received yet.
Chan(p) == SubSeq(wire[Other(p)], Len(rcvd[p]) + 1, Len(wire[Other(p)]))
\* The other end of p's connection is closed (by ::close or by process death).
PeerClosed(p) == conn[Other(p)] = "closed"

PumpInit ==
  /\ variant \in {"line", "key"}
  /\ input \in {"terminal", "pipe"}
  /\ variant = "key" => input = "terminal"
  /\ argv \in [Procs -> ArgvAll]
  /\ argv[2] = ArgvPeer
  /\ pc = [p \in Procs |-> "main"]
  /\ ready = [p \in Procs |-> {}]
  /\ lfd = [p \in Procs |-> "none"]
  /\ conn = [p \in Procs |-> "none"]
  /\ established = [p \in Procs |-> FALSE]
  /\ closeCalls = [p \in Procs |-> 0]
  /\ socks = [p \in Procs |-> 0]
  /\ term = [p \in Procs |-> "cooked"]
  /\ kbuf = [p \in Procs |-> <<>>]
  /\ keof = [p \in Procs |-> FALSE]
  /\ cinbuf = [p \in Procs |-> <<>>]
  /\ eofbit = [p \in Procs |-> FALSE]
  /\ line = [p \in Procs |-> <<>>]
  /\ off = [p \in Procs |-> 0]
  /\ left = [p \in Procs |-> 0]
  /\ incoming_buffer = [p \in Procs |-> <<>>]
  /\ out = [p \in Procs |-> <<>>]
  /\ exit = [p \in Procs |-> NoExit]
  /\ reason = [p \in Procs |-> ""]
  /\ cerr = [p \in Procs |-> ""]
  /\ typed = [p \in Procs |-> <<>>]
  /\ stdinErr = [p \in Procs |-> ""]
  /\ wire = [p \in Procs |-> <<>>]
  /\ rcvd = [p \in Procs |-> <<>>]
  /\ intrs = 0

\* `return status` from main before the pump: nothing else changes.
pumpData == <<framerVars, sendVars, kbuf, keof, cinbuf, eofbit, line, off, left,
              incoming_buffer, out, typed, stdinErr, wire, rcvd, intrs, ready,
              variant, input, argv>>

----------------------------------------------------------------------------
\* main, argument handling and the Connection Establisher.

\* tcp_peer.cpp 283-287: neither branch taken; usage on std::cerr, return 1.
MainUsage(p) ==
  /\ pc[p] = "main"
  /\ ~IsListen(argv[p]) /\ ~IsConnect(argv[p])
  /\ pc' = [pc EXCEPT ![p] = "exited"]
  /\ exit' = [exit EXCEPT ![p] = 1]
  /\ cerr' = [cerr EXCEPT ![p] = "usage"]
  /\ UNCHANGED <<pumpData, lfd, conn, established, closeCalls, socks, term,
                 reason>>

\* tcp_peer.cpp 144, 219: std::stoi throws, nothing catches: std::terminate.
MainStoiThrows(p) ==
  /\ pc[p] = "main"
  /\ \/ IsListen(argv[p]) /\ ~StoiOk(argv[p][2])
     \/ IsConnect(argv[p]) /\ ~StoiOk(argv[p][3])
  /\ pc' = [pc EXCEPT ![p] = "aborted"]
  /\ UNCHANGED <<pumpData, lfd, conn, established, closeCalls, socks, term,
                 reason, exit, cerr>>

\* listen_and_accept up to the blocking accept (tcp_peer.cpp 82-114).
\* how: which call fails, or "ok".  bind cannot succeed while the other
\* process listens on the port.
MainListen(p) ==
  /\ pc[p] = "main"
  /\ IsListen(argv[p]) /\ StoiOk(argv[p][2])
  /\ \E how \in {"socket", "bind", "listen", "ok"} :
       /\ how = "ok" => lfd[Other(p)] # "open"
       /\ socks' = [socks EXCEPT ![p] = @ + 1]
       /\ lfd' = [lfd EXCEPT ![p] = CASE how = "socket" -> "none"
                                      [] how = "ok" -> "open"
                                      [] OTHER -> "closed"]
       /\ pc' = [pc EXCEPT ![p] = IF how = "ok" THEN "accept" ELSE "exited"]
       /\ exit' = [exit EXCEPT ![p] = IF how = "ok" THEN NoExit ELSE 1]
       /\ cerr' = [cerr EXCEPT ![p] = IF how = "ok" THEN "" ELSE how]
  /\ UNCHANGED <<pumpData, conn, established, closeCalls, term, reason>>

\* Mutant: the failure path of accept returns without ::close(listen_fd).
AcceptLeaksListenFd(p) ==
  /\ pc[p] = "accept"
  /\ \E how \in {"ok", "EINTR", "ECONNABORTED"} :
       /\ how = "ok" => conn[p] = "open"
       /\ lfd' = [lfd EXCEPT ![p] = IF how = "ok" THEN "closed" ELSE @]
       /\ pc' = [pc EXCEPT ![p] = IF how = "ok" THEN "connected" ELSE "exited"]
       /\ exit' = [exit EXCEPT ![p] = IF how = "ok" THEN NoExit ELSE 1]
       /\ cerr' = [cerr EXCEPT ![p] = IF how = "ok" THEN "" ELSE "accept"]
       /\ reason' = [reason EXCEPT ![p] = IF how = "ok" THEN "" ELSE how]
       /\ established' = [established EXCEPT ![p] = (how = "ok")]
       /\ conn' = [conn EXCEPT ![p] =
                     IF how # "ok" /\ @ = "open" THEN "closed" ELSE @]
  /\ UNCHANGED <<pumpData, closeCalls, socks, term>>

\* accept returns (tcp_peer.cpp 116-135, 146).  It returns a connection only
\* once a peer has connected; it can fail at any time, with EINTR or with
\* another errno, and both take the same branch.
Accept(p) ==
  /\ pc[p] = "accept"
  /\ \E how \in {"ok", "EINTR", "ECONNABORTED"} :
       /\ how = "ok" => conn[p] = "open"
       /\ lfd' = [lfd EXCEPT ![p] = "closed"]
       /\ pc' = [pc EXCEPT ![p] = IF how = "ok" THEN "connected" ELSE "exited"]
       /\ exit' = [exit EXCEPT ![p] = IF how = "ok" THEN NoExit ELSE 1]
       /\ cerr' = [cerr EXCEPT ![p] = IF how = "ok" THEN "" ELSE "accept"]
       /\ reason' = [reason EXCEPT ![p] = IF how = "ok" THEN "" ELSE how]
       /\ established' = [established EXCEPT ![p] = (how = "ok")]
       /\ conn' = [conn EXCEPT ![p] =
                     IF how # "ok" /\ @ = "open" THEN "closed" ELSE @]
  /\ UNCHANGED <<pumpData, closeCalls, socks, term>>

\* Mutant: the address failure of connect_to_peer returns without ::close(fd).
MainConnectLeaks(p) ==
  /\ pc[p] = "main"
  /\ IsConnect(argv[p]) /\ StoiOk(argv[p][3])
  /\ \E how \in {"socket", "inet_pton", "ok"} :
       /\ how = "inet_pton" => ~InetPtonOk(argv[p][2])
       /\ how = "ok" => InetPtonOk(argv[p][2])
       /\ socks' = [socks EXCEPT ![p] = @ + 1]
       /\ closeCalls' = closeCalls
       /\ conn' = [conn EXCEPT ![p] = IF how = "socket" THEN @ ELSE "created"]
       /\ pc' = [pc EXCEPT ![p] = IF how = "ok" THEN "connect" ELSE "exited"]
       /\ exit' = [exit EXCEPT ![p] = IF how = "ok" THEN NoExit ELSE 1]
       /\ cerr' = [cerr EXCEPT ![p] = IF how = "ok" THEN "" ELSE how]
  /\ UNCHANGED <<pumpData, lfd, established, term, reason>>

\* connect_to_peer up to the call of connect (tcp_peer.cpp 50-71): socket,
\* then inet_pton, whose failure closes the socket.  The process is then
\* inside ::connect, which waits for the handshake.
MainConnect(p) ==
  /\ pc[p] = "main"
  /\ IsConnect(argv[p]) /\ StoiOk(argv[p][3])
  /\ \E how \in {"socket", "inet_pton", "ok"} :
       /\ how = "inet_pton" => ~InetPtonOk(argv[p][2])
       /\ how = "ok" => InetPtonOk(argv[p][2])
       /\ socks' = [socks EXCEPT ![p] = @ + 1]
       /\ closeCalls' = [closeCalls EXCEPT ![p] =
                           IF how = "inet_pton" THEN @ + 1 ELSE @]
       /\ conn' = [conn EXCEPT ![p] = CASE how = "socket" -> @
                                        [] how = "inet_pton" -> "closed"
                                        [] OTHER -> "created"]
       /\ pc' = [pc EXCEPT ![p] = IF how = "ok" THEN "connect" ELSE "exited"]
       /\ exit' = [exit EXCEPT ![p] = IF how = "ok" THEN NoExit ELSE 1]
       /\ cerr' = [cerr EXCEPT ![p] = IF how = "ok" THEN "" ELSE how]
  /\ UNCHANGED <<pumpData, lfd, established, term, reason>>

\* ::connect returns (tcp_peer.cpp 72-78, 220-221).  It succeeds only
\* against a listening socket with room in its backlog, and the connection
\* then exists for the listener too, whether or not accept has taken it;
\* on failure the socket is closed.
Connect(p) ==
  /\ pc[p] = "connect"
  /\ \E how \in {"connect", "ok"} :
       /\ how = "ok" => lfd[Other(p)] = "open" /\ conn[Other(p)] = "none"
       /\ closeCalls' = [closeCalls EXCEPT ![p] =
                           IF how = "connect" THEN @ + 1 ELSE @]
       /\ conn' = IF how = "ok" THEN [q \in Procs |-> "open"]
                                ELSE [conn EXCEPT ![p] = "closed"]
       /\ established' = [established EXCEPT ![p] = (how = "ok")]
       /\ pc' = [pc EXCEPT ![p] = IF how = "ok" THEN "connected" ELSE "exited"]
       /\ exit' = [exit EXCEPT ![p] = IF how = "ok" THEN NoExit ELSE 1]
       /\ cerr' = [cerr EXCEPT ![p] = IF how = "ok" THEN "" ELSE how]
  /\ UNCHANGED <<pumpData, lfd, socks, term, reason>>

\* main holds the code of a session twice, once in the --listen branch and
\* once in the --connect branch.  Each copy is read on its own: what its
\* loop does on each result of its calls (`continue` or `break`), the
\* diagnostic it writes to std::cerr before a break, what it appends to
\* the line it sends, the size of its receive array, what follows the
\* loop, and in part_000 what it does when raw mode cannot be enabled.

\* The copy in the --listen branch: tcp_peer.cpp 148-215, part_000 178-247.
ListenSession(v) ==
  IF v = "line"
  THEN [on |-> [select_eintr |-> "continue",    \* 166
                select_error |-> "break",       \* 167-168
                stdin_eof |-> "break",          \* 174-176
                send_failed |-> "break",        \* 180-182
                peer_closed |-> "break",        \* 190-192
                recv_eintr |-> "continue",      \* 195
                recv_error |-> "break"],        \* 196-197
        diag |-> [select_error |-> "select", stdin_eof |-> "",
                  send_failed |-> "send", peer_closed |-> "",
                  recv_error |-> "recv"],
        push |-> <<NL>>,                        \* 179
        chunk |-> 4096,                         \* 188
        closes |-> TRUE,                        \* 214
        status |-> 0]                           \* 215
  ELSE [on |-> [select_eintr |-> "continue",    \* 199
                select_error |-> "break",       \* 200-201
                stdin_eof |-> "break",          \* 218-220
                stdin_eintr |-> "continue",     \* 222
                stdin_error |-> "break",        \* 223-224
                send_failed |-> "break",        \* 213-215
                peer_closed |-> "break",        \* 232-234
                recv_eintr |-> "continue",      \* 237
                recv_error |-> "break"],        \* 238-239
        diag |-> [select_error |-> "select", stdin_eof |-> "",
                  stdin_error |-> "read", send_failed |-> "send",
                  peer_closed |-> "", recv_error |-> "recv"],
        enable |-> [closes |-> TRUE, status |-> 1],  \* 180-184
        push |-> <<>>,                          \* 213: the byte as it is
        chunk |-> 4096,                         \* 230
        closes |-> TRUE,                        \* 246
        status |-> 0]                           \* 247

\* Mutant: the loop of the --connect branch is followed by return 1.
ConnectSessionReturnsOne(v) == [ListenSession(v) EXCEPT !.status = 1]

\* The copy in the --connect branch: tcp_peer.cpp 223-280, part_000 255-314.
ConnectSession(v) ==
  IF v = "line"
  THEN [on |-> [select_eintr |-> "continue",    \* 237
                select_error |-> "break",       \* 238-239
                stdin_eof |-> "break",          \* 244-246
                send_failed |-> "break",        \* 249-251
                peer_closed |-> "break",        \* 258-260
                recv_eintr |-> "continue",      \* 263
                recv_error |-> "break"],        \* 264-265
        diag |-> [select_error |-> "select", stdin_eof |-> "",
                  send_failed |-> "send", peer_closed |-> "",
                  recv_error |-> "recv"],
        push |-> <<NL>>,                        \* 248
        chunk |-> 4096,                         \* 256
        closes |-> TRUE,                        \* 279
        status |-> 0]                           \* 280
  ELSE [on |-> [select_eintr |-> "continue",    \* 273
                select_error |-> "break",       \* 274-275
                stdin_eof |-> "break",          \* 287-289
                stdin_eintr |-> "continue",     \* 291
                stdin_error |-> "break",        \* 292-293
                send_failed |-> "break",        \* 283-285
                peer_closed |-> "break",        \* 300-302
                recv_eintr |-> "continue",      \* 305
                recv_error |-> "break"],        \* 306-307
        diag |-> [select_error |-> "select", stdin_eof |-> "",
                  stdin_error |-> "read", send_failed |-> "send",
                  peer_closed |-> "", recv_error |-> "recv"],
        enable |-> [closes |-> TRUE, status |-> 1],  \* 256-260
        push |-> <<>>,                          \* 283: the byte as it is
        chunk |-> 4096,                         \* 298
        closes |-> TRUE,                        \* 313
        status |-> 0]                           \* 314

\* The copy process p runs: main's test of argv[1] picks the branch.
Session(p) == IF IsListen(argv[p]) THEN ListenSession(variant)
                                ELSE ConnectSession(variant)

\* Between the establisher and the loop.  tcp_peer.cpp 148-153: nothing that
\* can fail.  part_000 179-186: TerminalRawGuard::enable, and on failure
\* close(sock), return 1.
EnterPump(p) ==
  /\ pc[p] = "connected"
  /\ \E ok \in BOOLEAN :
       /\ variant = "line" => ok
       /\ pc' = [pc EXCEPT ![p] = IF ok THEN "select" ELSE "exited"]
       /\ term' = [term EXCEPT ![p] = IF ok /\ variant = "key" THEN "raw" ELSE @]
       /\ exit' = [exit EXCEPT ![p] =
                     IF ok THEN NoExit ELSE Session(p).enable.status]
       /\ cerr' = [cerr EXCEPT ![p] = IF ok THEN "" ELSE "raw"]
       /\ reason' = [reason EXCEPT ![p] = IF ok THEN "" ELSE "raw_failed"]
       /\ closeCalls' = [closeCalls EXCEPT ![p] =
                           IF ~ok /\ Session(p).enable.closes THEN @ + 1
                                                               ELSE @]
       /\ conn' = [conn EXCEPT ![p] = IF ok THEN @ ELSE "closed"]
  /\ UNCHANGED <<pumpData, lfd, established, socks>>

----------------------------------------------------------------------------
\* The Duplex Pump: the while (true) loop of main
\* (tcp_peer.cpp 155-215 and 228-280; part_000 189-247 and 264-314).
\* A process is at "select" at the top of the loop, at "getline" when it is
\* blocked inside std::getline, at "send" inside send_all_bytes and at "recv"
\* when the socket part of the iteration is still to run.

\* `break`, then what follows the loop: ::close(socket_fd); return 0;
\* (whether or not ::close is called, the return from main releases the
\* descriptor).  In part_000 the TerminalRawGuard destructor then restores
\* the terminal.
Break(p, why, diag) ==
  /\ pc' = [pc EXCEPT ![p] = "exited"]
  /\ reason' = [reason EXCEPT ![p] = why]
  /\ cerr' = [cerr EXCEPT ![p] = diag]
  /\ closeCalls' = [closeCalls EXCEPT ![p] =
                      IF Session(p).closes THEN @ + 1 ELSE @]
  /\ conn' = [conn EXCEPT ![p] = "closed"]
  /\ exit' = [exit EXCEPT ![p] = Session(p).status]
  /\ term' = [term EXCEPT ![p] = "cooked"]
  /\ ready' = [ready EXCEPT ![p] = {}]

\* What a step that does not end the process leaves alone.
running == <<exit, reason, cerr, closeCalls, conn, term>>
fixed == <<framerVars, sendVars, variant, input, argv, lfd, established,
           socks>>

\* The process ends on a signal whose action is the default one (no
\* signal/sigaction call in either file): it stops where it stands, the
\* loop is not left by `break`, ::close is not called, no destructor runs
\* and there is no exit status.  The kernel then releases the descriptors.
KilledBySignal(p) ==
  /\ pc' = [pc EXCEPT ![p] = "killed"]
  /\ conn' = [conn EXCEPT ![p] = IF @ \in {"open", "created"} THEN "closed" ELSE @]
  /\ lfd' = [lfd EXCEPT ![p] = IF @ = "open" THEN "closed" ELSE @]
  /\ UNCHANGED <<pumpData, established, closeCalls, socks, term, exit,
                 reason, cerr>>

\* Descriptor 0 of the line-oriented program is a terminal in canonical
\* mode (tcp_peer.cpp changes no terminal setting) or a pipe.  kb is what
\* the operator has given and no read has taken yet; eof: the pipe's writer
\* has closed, or the terminal has hung up.
\* A terminal in canonical mode gives a reader whole lines only.  A line
\* ends with '\n' or with Ctrl+D; what follows the last of them is not
\* readable until its own arrives.  One read returns one line at most: with
\* its '\n', or without the Ctrl+D, so that Ctrl+D on an empty line is a
\* read of zero bytes, once.
\* A pipe gives every byte as it comes, and one read returns all that is
\* there; at end-of-input every read returns zero bytes.
\* The keystroke program reads a terminal it has put in raw mode
\* (part_000 44-53), which gives every byte as it comes, Ctrl+D included.
Canonical == variant = "line" /\ input = "terminal"
Delim(kb) ==
  IF \E i \in 1..Len(kb) : kb[i] \in {NL, EOT}
  THEN CHOOSE i \in 1..Len(kb) :
         /\ kb[i] \in {NL, EOT}
         /\ \A j \in 1..(i - 1) : kb[j] \notin {NL, EOT}
  ELSE 0
StdinReadable(kb, eof, canon) ==
  IF canon THEN Delim(kb) > 0 \/ eof ELSE kb # <<>> \/ eof
\* How much of kb one read takes, and the bytes it returns.
ReadUnit(kb, canon) == IF canon THEN Delim(kb) ELSE Len(kb)
ReadBytes(kb, canon) ==
  LET n == ReadUnit(kb, canon)
  IN IF canon /\ n > 0 /\ kb[n] = EOT THEN SubSeq(kb, 1, n - 1)
                                       ELSE SubSeq(kb, 1, n)

\* select (tcp_peer.cpp 157-164).  Descriptor 0 is readable when a read of
\* it would return (bytes, or end-of-input); the socket is readable when
\* bytes are queued or the peer has closed.  select blocks while neither is,
\* and leaves in read_set the descriptors that are.
ReadSet(p) ==
  {f \in {"stdin"} : StdinReadable(kbuf[p], keof[p], Canonical)}
    \cup {f \in {"sock"} : Chan(p) # <<>> \/ PeerClosed(p)}

\* std::getline(std::cin, line) (tcp_peer.cpp 174).  acc: what the call has
\* collected so far; cin: the stream's read-ahead; bit: the stream's
\* eofbit; kb, eof: descriptor 0; canon: descriptor 0 is a terminal in
\* canonical mode; good: how many reads of descriptor 0 succeed before one
\* fails (NoFault: none fails).  A stream whose eofbit is set fails at
\* once, reading nothing (nothing in the source clears it).  Otherwise the
\* stream hands out its read-ahead first and reads the descriptor only when
\* that runs out, taking what one read returns; it blocks if the read does,
\* and a read of zero bytes sets eofbit and ends the line, which is a
\* failure only if the line is empty.  A read that fails, with EINTR or
\* with any other errno, is to the stream a read of zero bytes: the same
\* eofbit, the same end of the line, and no exception (std::cin throws
\* none unless asked to).
RECURSIVE GetLine(_, _, _, _, _, _, _)
GetLine(acc, cin, bit, kb, eof, canon, good) ==
  LET pos == Find(cin, NL)
      n == ReadUnit(kb, canon)
      got == ReadBytes(kb, canon)
      rest == SubSeq(kb, n + 1, Len(kb))
  IN IF bit
     THEN [status |-> "fail", line |-> acc, cin |-> cin, kb |-> kb,
           bit |-> TRUE, faulted |-> FALSE]
     ELSE IF pos > 0
     THEN [status |-> "ok", line |-> acc \o SubSeq(cin, 1, pos - 1),
           cin |-> SubSeq(cin, pos + 1, Len(cin)), kb |-> kb, bit |-> FALSE,
           faulted |-> FALSE]
     ELSE IF good = 0
     THEN [status |-> IF acc \o cin # <<>> THEN "ok" ELSE "fail",
           line |-> acc \o cin, cin |-> <<>>, kb |-> kb, bit |-> TRUE,
           faulted |-> TRUE]
     ELSE IF ~StdinReadable(kb, eof, canon)
     THEN [status |-> "block", line |-> acc \o cin, cin |-> <<>>, kb |-> kb,
           bit |-> FALSE, faulted |-> FALSE]
     ELSE IF got # <<>>
     THEN GetLine(acc \o cin, got, FALSE, rest, eof, canon,
                  IF good > 0 THEN good - 1 ELSE good)
     ELSE [status |-> IF acc \o cin # <<>> THEN "ok" ELSE "fail",
           line |-> acc \o cin, cin |-> <<>>, kb |-> rest, bit |-> TRUE,
           faulted |-> FALSE]

\* Where the iteration goes once the local-input part is done.
AfterStdin(rs) == IF "sock" \in rs THEN "recv" ELSE "select"

\* What the loop of p does on the result ev of a call, by its own text:
\* `continue` (the top of the loop again), or `break` after the diagnostic.
Outcome(p, ev) ==
  IF Session(p).on[ev] = "continue"
  THEN /\ pc' = [pc EXCEPT ![p] = "select"]
       /\ ready' = [ready EXCEPT ![p] = {}]
       /\ UNCHANGED running
  ELSE Break(p, ev, Session(p).diag[ev])

\* if (FD_ISSET(0, &read_set)), line-oriented (tcp_peer.cpp 172-184):
\* getline, then push_back('\n') and the entry of send_all_bytes.
\* rs is read_set.  A read of descriptor 0 made by getline can fail, the
\* first or a later one, with EINTR or with another errno (EIO).
StdinLine(p, rs) ==
  /\ \E good \in {NoFault} \cup (0..Len(kbuf[p])), e \in {"EINTR", "EIO"} :
       LET r == GetLine(line[p], cinbuf[p], eofbit[p], kbuf[p], keof[p],
                        Canonical, good)
           text == r.line \o Session(p).push
       IN /\ r.faulted <=> good # NoFault
          /\ good = NoFault => e = "EIO"
          /\ (r.faulted /\ e = "EINTR") => intrs < MaxIntr
          /\ intrs' = IF r.faulted /\ e = "EINTR" THEN intrs + 1 ELSE intrs
          /\ stdinErr' = [stdinErr EXCEPT ![p] = IF r.faulted THEN e ELSE @]
          /\ \/ /\ r.status = "ok"
                /\ pc' = [pc EXCEPT ![p] = "send"]
                /\ line' = [line EXCEPT ![p] = text]
                /\ off' = [off EXCEPT ![p] = SendAllEnter(text).off]
                /\ left' = [left EXCEPT ![p] = SendAllEnter(text).left]
                /\ cinbuf' = [cinbuf EXCEPT ![p] = r.cin]
                /\ kbuf' = [kbuf EXCEPT ![p] = r.kb]
                /\ eofbit' = [eofbit EXCEPT ![p] = r.bit]
                /\ ready' = [ready EXCEPT ![p] = rs]
                /\ UNCHANGED running
             \/ /\ r.status = "block"
                /\ pc' = [pc EXCEPT ![p] = "getline"]
                /\ line' = [line EXCEPT ![p] = r.line]
                /\ cinbuf' = [cinbuf EXCEPT ![p] = r.cin]
                /\ kbuf' = [kbuf EXCEPT ![p] = r.kb]
                /\ ready' = [ready EXCEPT ![p] = rs]
                /\ UNCHANGED <<running, off, left, eofbit>>
             \/ /\ r.status = "fail"             \* "stdin closed; goodbye"
                /\ kbuf' = [kbuf EXCEPT ![p] = r.kb]
                /\ eofbit' = [eofbit EXCEPT ![p] = r.bit]
                /\ Outcome(p, "stdin_eof")
                /\ UNCHANGED <<line, off, left, cinbuf>>
  /\ UNCHANGED <<fixed, keof, incoming_buffer, out, typed, wire, rcvd>>

\* Mutant: the keystroke is sent with a '\n' after it.
StdinKeyAddsDelimiter(p, rs) ==
  /\ \/ /\ kbuf[p] # <<>>
        /\ kbuf' = [kbuf EXCEPT ![p] = Tail(@)]
        /\ out' = [out EXCEPT ![p] =
                     Append(@, [tag |-> "echo", bytes |-> <<Head(kbuf[p])>>])]
        /\ line' = [line EXCEPT ![p] = <<Head(kbuf[p]), NL>>]
        /\ off' = [off EXCEPT ![p] = 0]
        /\ left' = [left EXCEPT ![p] = 2]
        /\ pc' = [pc EXCEPT ![p] = "send"]
        /\ ready' = [ready EXCEPT ![p] = rs]
        /\ UNCHANGED <<running, intrs, stdinErr>>
     \/ /\ kbuf[p] = <<>> /\ keof[p]
        /\ Outcome(p, "stdin_eof")
        /\ UNCHANGED <<kbuf, out, line, off, left, intrs, stdinErr>>
     \/ /\ intrs < MaxIntr
        /\ intrs' = intrs + 1
        /\ Outcome(p, "stdin_eintr")
        /\ UNCHANGED <<kbuf, out, line, off, left, stdinErr>>
     \/ /\ stdinErr' = [stdinErr EXCEPT ![p] = "EIO"]
        /\ Outcome(p, "stdin_error")
        /\ UNCHANGED <<kbuf, out, line, off, left, intrs>>
  /\ UNCHANGED <<fixed, keof, cinbuf, eofbit, incoming_buffer, typed, wire, rcvd>>

\* if (FD_ISSET(STDIN_FILENO, &read_set)), keystroke-oriented
\* (part_000 205-226): read(0, &ch, 1), echo, then the entry of
\* send_all_bytes(sock, &ch, 1).
StdinKey(p, rs) ==
  /\ \/ /\ kbuf[p] # <<>>                        \* n == 1
        /\ kbuf' = [kbuf EXCEPT ![p] = Tail(@)]
        /\ out' = [out EXCEPT ![p] =
                     Append(@, [tag |-> "echo", bytes |-> <<Head(kbuf[p])>>])]
        /\ line' = [line EXCEPT ![p] = <<Head(kbuf[p])>> \o Session(p).push]
        /\ off' = [off EXCEPT ![p] =
                     SendAllEnter(<<Head(kbuf[p])>> \o Session(p).push).off]
        /\ left' = [left EXCEPT ![p] =
                      SendAllEnter(<<Head(kbuf[p])>> \o Session(p).push).left]
        /\ pc' = [pc EXCEPT ![p] = "send"]
        /\ ready' = [ready EXCEPT ![p] = rs]
        /\ UNCHANGED <<running, intrs, stdinErr>>
     \/ /\ kbuf[p] = <<>> /\ keof[p]             \* n == 0: "stdin closed"
        /\ Outcome(p, "stdin_eof")
        /\ UNCHANGED <<kbuf, out, line, off, left, intrs, stdinErr>>
     \/ /\ intrs < MaxIntr                       \* n < 0, EINTR
        /\ intrs' = intrs + 1
        /\ Outcome(p, "stdin_eintr")
        /\ UNCHANGED <<kbuf, out, line, off, left, stdinErr>>
     \/ /\ stdinErr' = [stdinErr EXCEPT ![p] = "EIO"]  \* n < 0, other errno
        /\ Outcome(p, "stdin_error")
        /\ UNCHANGED <<kbuf, out, line, off, left, intrs>>
  /\ UNCHANGED <<fixed, keof, cinbuf, eofbit, incoming_buffer, typed, wire, rcvd>>

\* if (FD_ISSET(socket_fd, &read_set)) (tcp_peer.cpp 187-211,
\* part_000 229-243): recv of at most sizeof(chunk) bytes, then append and
\* extract (line) or write the chunk as it is (key).  The iteration ends
\* here.
SockPart(p) ==
  /\ \/ /\ \E n \in 1..Min(Len(Chan(p)), Session(p).chunk) :
             LET chunk == SubSeq(Chan(p), 1, n)
                 r == ReceivePath(incoming_buffer[p], chunk)
             IN /\ rcvd' = [rcvd EXCEPT ![p] = @ \o chunk]
                /\ IF variant = "line"
                   THEN /\ incoming_buffer' = [incoming_buffer EXCEPT ![p] = r.buf]
                        /\ out' = [out EXCEPT ![p] =
                              @ \o [i \in 1..Len(r.msgs) |->
                                      [tag |-> "peer", bytes |-> r.msgs[i]]]]
                   ELSE /\ out' = [out EXCEPT ![p] =
                              Append(@, [tag |-> "peer", bytes |-> chunk])]
                        /\ UNCHANGED incoming_buffer
        /\ pc' = [pc EXCEPT ![p] = "select"]
        /\ ready' = [ready EXCEPT ![p] = {}]
        /\ UNCHANGED <<running, intrs>>
     \/ /\ Chan(p) = <<>> /\ PeerClosed(p)       \* n == 0: "peer disconnected"
        /\ Outcome(p, "peer_closed")
        /\ UNCHANGED <<rcvd, incoming_buffer, out, intrs>>
     \/ /\ intrs < MaxIntr                       \* n < 0, EINTR
        /\ intrs' = intrs + 1
        /\ Outcome(p, "recv_eintr")
        /\ UNCHANGED <<rcvd, incoming_buffer, out>>
     \/ /\ Outcome(p, "recv_error")              \* n < 0, other errno
        /\ UNCHANGED <<rcvd, incoming_buffer, out, intrs>>
  /\ UNCHANGED <<fixed, kbuf, keof, cinbuf, eofbit, line, off, left, typed,
                 stdinErr, wire>>

\* select returns with something ready, and the iteration runs up to the
\* first call that can block again (tcp_peer.cpp 164-211).
Iterate(p) ==
  /\ pc[p] = "select"
  /\ ReadSet(p) # {}
  /\ IF "stdin" \in ReadSet(p)
     THEN IF variant = "line" THEN StdinLine(p, ReadSet(p))
                              ELSE StdinKey(p, ReadSet(p))
     ELSE SockPart(p)

\* select returns -1 with errno EINTR (tcp_peer.cpp 165-166).
SelectInterrupted(p) ==
  /\ pc[p] = "select"
  /\ intrs < MaxIntr
  /\ intrs' = intrs + 1
  /\ Outcome(p, "select_eintr")
  /\ UNCHANGED <<fixed, kbuf, keof, cinbuf, eofbit, line, off, left,
                 incoming_buffer, out, typed, stdinErr, wire, rcvd>>

\* select returns -1 with another errno (tcp_peer.cpp 167-168).
SelectFails(p) ==
  /\ pc[p] = "select"
  /\ Outcome(p, "select_error")
  /\ UNCHANGED <<fixed, kbuf, keof, cinbuf, eofbit, line, off, left,
                 incoming_buffer, out, typed, stdinErr, wire, rcvd, intrs>>

\* The read a process is blocked in, inside std::getline, returns: with
\* what descriptor 0 now has, or with an error.
GetlineResumes(p) ==
  /\ pc[p] = "getline"
  /\ StdinLine(p, ready[p])
  /\ pc'[p] # "getline" \/ line'[p] # line[p]

\* One ::send call of send_all_bytes and the loop test after it; when the
\* function returns, the `if (!send_all_bytes(...)) break;` of the caller
\* (tcp_peer.cpp 180-183, part_000 213-216).  ::send is called with flags 0
\* (tcp_peer.cpp 36, part_000 78) and SIGPIPE is left at its default
\* action, so on a connection the peer has closed the call can end the
\* process instead of returning (on TCP an earlier send may still be
\* accepted, or fail with the reset).
SendCall(p) ==
  /\ pc[p] = "send"
  /\ \/ /\ \E r \in SendResults(left[p]) :
             LET s == SendAllStep(off[p], left[p], r)
             IN /\ r.errno = "EINTR" => intrs < MaxIntr
                /\ intrs' = IF r.errno = "EINTR" THEN intrs + 1 ELSE intrs
                /\ wire' = [wire EXCEPT ![p] =
                              IF r.n > 0 THEN @ \o Accepted(line[p], off[p], r.n)
                                         ELSE @]
                /\ \/ /\ s.ret = "running"
                      /\ off' = [off EXCEPT ![p] = s.off]
                      /\ left' = [left EXCEPT ![p] = s.left]
                      /\ UNCHANGED <<running, pc, line, ready>>
                   \/ /\ s.ret = "true"
                      /\ off' = [off EXCEPT ![p] = 0]
                      /\ left' = [left EXCEPT ![p] = 0]
                      /\ line' = [line EXCEPT ![p] = <<>>]
                      /\ pc' = [pc EXCEPT ![p] = AfterStdin(ready[p])]
                      /\ ready' = [ready EXCEPT ![p] =
                                     IF AfterStdin(@) = "select" THEN {} ELSE @]
                      /\ UNCHANGED running
                   \/ /\ s.ret = "false"
                      /\ Outcome(p, "send_failed")
                      /\ UNCHANGED <<line, off, left>>
        /\ UNCHANGED <<fixed, kbuf, keof, cinbuf, eofbit, incoming_buffer, out,
                       typed, stdinErr, rcvd>>
     \/ /\ PeerClosed(p)                         \* SIGPIPE
        /\ KilledBySignal(p)

\* The socket part of an iteration whose local-input part has sent its text.
RecvAfterSend(p) ==
  /\ pc[p] = "recv"
  /\ SockPart(p)

----------------------------------------------------------------------------
\* The environment: the operators and the interrupt signal.

\* The keys the operators press: a letter and the delimiter, and on the
\* terminal of the keystroke program Ctrl+D, which is a byte there.  The
\* operator can press them from the start of the process on: what
\* descriptor 0 is given before the loop runs waits there to be read.
\* The terminal of the keystroke program is in raw mode only from
\* TerminalRawGuard::enable on (part_000 181); a Ctrl+D pressed before is
\* taken by the canonical mode as its end-of-file character, and the read
\* made in raw mode finds a byte 0 where it was pressed.
\* In raw mode '\n' is a byte like the letter, and the letter stands for
\* it.  Keys are counted by kind, bytes and presses of Ctrl+D where Ctrl+D
\* is no byte, and all together.
Count(t, S) == Cardinality({i \in 1..Len(t) : t[i] \in S})
Keys == IF variant = "key" THEN {97, EOT} ELSE {97, NL}
KeysTotal == Len(typed[1]) + Len(typed[2])
Queued(p, b) ==
  IF variant = "key" /\ term[p] = "cooked" /\ b = EOT THEN NUL ELSE b
TypedTotal ==
  Count(typed[1], Keys \cup {NUL}) + Count(typed[2], Keys \cup {NUL})
EotTotal == Count(typed[1], {EOT}) + Count(typed[2], {EOT})
Alive == Running \cup {"main"}

\* The operator of p delivers one byte to descriptor 0.
Type(p) ==
  /\ pc[p] \in Alive
  /\ ~keof[p]
  /\ TypedTotal < MaxTyped /\ KeysTotal < MaxKeys
  /\ \E b \in Keys :
       /\ kbuf' = [kbuf EXCEPT ![p] = Append(@, Queued(p, b))]
       /\ typed' = [typed EXCEPT ![p] = Append(@, Queued(p, b))]
  /\ UNCHANGED <<fixed, running, pc, ready, keof, cinbuf, eofbit, line, off,
                 left, incoming_buffer, out, stdinErr, wire, rcvd, intrs>>

\* The operator of p presses Ctrl+D on a terminal in canonical mode.
CtrlD(p) ==
  /\ pc[p] \in Alive
  /\ Canonical
  /\ ~keof[p]
  /\ EotTotal < MaxEot /\ KeysTotal < MaxKeys
  /\ kbuf' = [kbuf EXCEPT ![p] = Append(@, EOT)]
  /\ typed' = [typed EXCEPT ![p] = Append(@, EOT)]
  /\ UNCHANGED <<fixed, running, pc, ready, keof, cinbuf, eofbit, line, off,
                 left, incoming_buffer, out, stdinErr, wire, rcvd, intrs>>

\* Descriptor 0 of p comes to its end for good: the writer of the pipe
\* closes it, and what it wrote stays to be read; or the terminal hangs up,
\* and what was typed and not yet read is discarded, never to be read.
CloseInput(p) ==
  /\ pc[p] \in Alive
  /\ ~keof[p]
  /\ keof' = [keof EXCEPT ![p] = TRUE]
  /\ kbuf' = [kbuf EXCEPT ![p] = IF input = "terminal" THEN <<>> ELSE @]
  /\ typed' = [typed EXCEPT ![p] =
                 IF input = "terminal"
                 THEN SubSeq(@, 1, Len(@) - Len(kbuf[p])) ELSE @]
  /\ UNCHANGED <<fixed, running, pc, ready, cinbuf, eofbit, line, off, left,
                 incoming_buffer, out, stdinErr, wire, rcvd, intrs>>

\* SIGINT reaches p, at any point from the start of main on, inside
\* connect and accept included.
Interrupt(p) ==
  /\ pc[p] \in Alive
  /\ KilledBySignal(p)

----------------------------------------------------------------------------
\* The specifications.

FramerIdle ==
  /\ fInput = <<>> /\ fFed = 0 /\ fBuffer = <<>> /\ fEmitted = <<>>
  /\ fChunks = 0

SendIdle ==
  /\ sText = <<>> /\ sCap = 1 /\ sOff = 0 /\ sLeft = 0 /\ sRet = "true"
  /\ sCalls = 0 /\ sWire = <<>> /\ sIntr = 0 /\ sShort = FALSE
  /\ sFault = FALSE

PumpIdle ==
  /\ PumpInit
  /\ variant = "line"
  /\ input = "terminal"
  /\ argv = [p \in Procs |-> ArgvPeer]

FramerSpecInit == FramerInit /\ SendIdle /\ PumpIdle
FramerSpec == FramerSpecInit /\ [][Feed]_vars

SendSpecInit == SendInit /\ FramerIdle /\ PumpIdle
SendNext ==
  \/ SendAccepts
  \/ SendInterrupted
  \/ SendFails
  \/ SendReturnsZero
SendSpec == SendSpecInit /\ [][SendNext]_vars

\* A ::send call that has been issued returns, with one of its results.
SendFairSpec == SendSpec /\ WF_vars(SendNext)

Init == PumpInit /\ FramerIdle /\ SendIdle

Next ==
  \E p \in Procs :
    \/ MainUsage(p)
    \/ MainStoiThrows(p)
    \/ MainListen(p)
    \/ Accept(p)
    \/ MainConnect(p)
    \/ Connect(p)
    \/ EnterPump(p)
    \/ Iterate(p)
    \/ SelectInterrupted(p)
    \/ SelectFails(p)
    \/ GetlineResumes(p)
    \/ SendCall(p)
    \/ RecvAfterSend(p)
    \/ Type(p)
    \/ CtrlD(p)
    \/ CloseInput(p)
    \/ Interrupt(p)

Spec == Init /\ [][Next]_vars

\* A process goes on running: the steps that are its own code's progress
\* (a call that is ready returns with some result) are weakly fair: accept
\* once a connection is waiting, connect always, the read inside getline
\* once descriptor 0 is readable.  Nothing is assumed of the operators, of
\* signals, of select's error results, of accept with no connection
\* waiting or of a read of descriptor 0 that has nothing to return.
Progress(p) ==
  \/ MainUsage(p)
  \/ MainStoiThrows(p)
  \/ MainListen(p)
  \/ (conn[p] = "open" /\ Accept(p))
  \/ MainConnect(p)
  \/ Connect(p)
  \/ EnterPump(p)
  \/ Iterate(p)
  \/ (StdinReadable(kbuf[p], keof[p], Canonical) /\ GetlineResumes(p))
  \/ SendCall(p)
  \/ RecvAfterSend(p)

FairSpec == Spec /\ \A p \in Procs : WF_vars(Progress(p))

----------------------------------------------------------------------------
\* Vocabulary of the properties.

CeilDiv(a, b) == (a + b - 1) \div b

\* Messages, each followed by the delimiter, back to back.
RECURSIVE Rejoin(_)
Rejoin(msgs) ==
  IF msgs = <<>> THEN <<>> ELSE Head(msgs) \o <<NL>> \o Rejoin(Tail(msgs))

\* The lines in a byte sequence t, by the positions of its delimiters.
NLPositions(t) == {i \in 1..Len(t) : t[i] = NL}
NumLines(t) == Cardinality(NLPositions(t))
KthNL(t, k) ==
  IF k = 0 THEN 0
  ELSE CHOOSE i \in NLPositions(t) :
         Cardinality({j \in NLPositions(t) : j <= i}) = k
EnteredLines(t) ==
  [k \in 1..NumLines(t) |-> SubSeq(t, KthNL(t, k - 1) + 1, KthNL(t, k) - 1)]
Trailing(t) == SubSeq(t, KthNL(t, NumLines(t)) + 1, Len(t))

\* What the operator of p has entered.  On a terminal in canonical mode a
\* Ctrl+D that follows a '\n' or another Ctrl+D, or that comes first, is
\* the end of the input, and what is typed after it is entered to nobody;
\* a Ctrl+D anywhere else is no byte of the input.  Elsewhere every key is
\* a byte of the input.
InputEnd(t) ==
  LET ends == {i \in 1..Len(t) :
                 t[i] = EOT /\ (i = 1 \/ t[i - 1] \in {NL, EOT})}
  IN IF ends = {} THEN 0 ELSE CHOOSE i \in ends : \A j \in ends : i <= j
NotEot(b) == b # EOT
Entered(p) ==
  IF Canonical
  THEN SelectSeq(IF InputEnd(typed[p]) > 0
                 THEN SubSeq(typed[p], 1, InputEnd(typed[p]) - 1)
                 ELSE typed[p], NotEot)
  ELSE typed[p]
InputEnded(p) == keof[p] \/ (Canonical /\ InputEnd(typed[p]) > 0)

\* The lines the operator of p has entered: the delimited ones, and the
\* undelimited last one once the input has ended.
OperatorLines(p) ==
  EnteredLines(Entered(p))
    \o (IF InputEnded(p) /\ Trailing(Entered(p)) # <<>>
        THEN <<Trailing(Entered(p))>> ELSE <<>>)

\* The messages p has printed.
OutMsgs(p) == [i \in 1..Len(out[p]) |-> out[p][i].bytes]

----------------------------------------------------------------------------
\* C1  Framing is independent of chunking: once all of S has been fed, in
\* whatever non-empty chunks, the messages emitted are those the receive
\* path emits when it is run once on all of S.
C1_ChunkingIndependent ==
  fFed = Len(fInput) => fEmitted = ReceivePath(<<>>, fInput).msgs

\* An input with two delimiters fed in three or more chunks.
C1_Witness ==
  /\ fFed = Len(fInput)
  /\ fChunks >= 3
  /\ Len(fEmitted) = 2
  /\ fEmitted[1] # fEmitted[2]

\* C2  No loss, no duplication: the messages emitted so far, each with its
\* delimiter put back, followed by what is left in incoming_buffer, are
\* exactly the bytes fed so far.
C2_NoLossNoDuplication ==
  Rejoin(fEmitted) \o fBuffer = SubSeq(fInput, 1, fFed)

\* Messages were extracted and an undelimited remainder is left.
C2_Witness ==
  /\ fFed = Len(fInput)
  /\ Len(fEmitted) >= 1
  /\ fBuffer # <<>>
  /\ fChunks >= 2

\* C4  Must-fully-send: against a primitive that takes min(k, left) bytes
\* per call, k < N, and neither fails nor is interrupted, send_all_bytes on
\* an N-byte message makes ceil(N/k) calls, returns true, and the N bytes
\* have been accepted in their order.
C4_MustFullySend ==
  (/\ sRet # "running"
   /\ sCap < Len(sText)
   /\ ~sShort /\ ~sFault /\ sIntr = 0)
  => /\ sRet = "true"
     /\ sCalls = CeilDiv(Len(sText), sCap)
     /\ sWire = sText

\* N = 3 (or more), k = 2: the last call takes a short rest.
C4_Witness ==
  /\ sRet = "true"
  /\ sCap = 2 /\ Len(sText) >= 3
  /\ ~sShort /\ ~sFault /\ sIntr = 0
  /\ sCalls >= 2

\* C3  (as claimed)  Round trip, line-oriented: what the other endpoint
\* prints are the operator's lines, byte for byte and in order (never
\* anything else), and a line is printed as soon as all its bytes,
\* delimiter included, have been received, however the bytes were split
\* over send calls and recv chunks.
BytesOfFirst(L, k) == Len(Rejoin(SubSeq(L, 1, k)))
C3_RoundTrip ==
  variant = "line" =>
    \A p \in Procs :
      LET L == OperatorLines(p)
          M == OutMsgs(Other(p))
      IN /\ IsPrefix(M, L)
         /\ \A k \in 1..Len(L) :
              BytesOfFirst(L, k) <= Len(rcvd[Other(p)]) => Len(M) >= k

\* C5  (as claimed)  After the peer has closed its end of the connection,
\* the local pump sends nothing more to it, and when it ends it exits 0.
C5_NoSendAfterPeerClose ==
  [][\A p \in Procs :
       (/\ pc[p] \in InPump
        /\ established[Other(p)] /\ closeCalls[Other(p)] = 1 /\ PeerClosed(p))
         => /\ wire'[p] = wire[p]
            /\ (pc'[p] = "exited" => exit'[p] = 0)]_vars

\* C6  (as claimed)  Once a process has ended on local end-of-input, having
\* closed the connection and exited 0, the pump of its peer comes to an end
\* too (on the zero-length read, or earlier for a reason of its own).
C6_PeerPumpEnds ==
  \A p \in Procs :
    (pc[p] = "exited" /\ reason[p] = "stdin_eof" /\ pc[Other(p)] \in InPump)
      ~> (pc[Other(p)] \in Ended)

\* C7  (as claimed)  A pump that ended on a session-fatal error exits 1, and
\* one that ended on peer disconnect or local end-of-input exits 0.
FatalReasons == {"select_error", "recv_error", "stdin_error", "send_failed"}
CleanReasons == {"peer_closed", "stdin_eof"}
C7_ExitStatusReflectsEnd ==
  \A p \in Procs :
    pc[p] = "exited" =>
      /\ reason[p] \in FatalReasons => exit[p] = 1
      /\ reason[p] \in CleanReasons => exit[p] = 0

\* C8  An invocation that is neither `--listen <port>` nor
\* `--connect <host> <port>` creates, binds or connects no socket, and its
\* one step is to end with status 1 and the usage text on std::cerr (a
\* signal can end the process before it takes that step, and nothing else
\* can happen to it).
Recognized(a) ==
  \/ Len(a) >= 2 /\ Head(a) = "--listen"
  \/ Len(a) >= 3 /\ Head(a) = "--connect"
C8_UsageOnUnrecognized ==
  \A p \in Procs :
    ~Recognized(argv[p]) =>
      /\ pc[p] \in {"main", "exited", "killed"}
      /\ pc[p] = "exited" => exit[p] = 1 /\ cerr[p] = "usage"
      /\ pc[p] # "exited" => exit[p] = NoExit /\ cerr[p] = ""
      /\ socks[p] = 0 /\ lfd[p] = "none" /\ conn[p] = "none"
      /\ ~established[p]

\* A recognized flag with too few arguments has produced the usage text.
C8_Witness ==
  \E p \in Procs :
    /\ Len(argv[p]) = 1 /\ argv[p][1] = "--listen"
    /\ pc[p] = "exited" /\ cerr[p] = "usage" /\ exit[p] = 1

\* C9  (as claimed)  A process that held the connection and has ended, in
\* whatever way, the interrupt signal included, has closed it, exactly once.
C9_ClosedOnEveryExit ==
  \A p \in Procs :
    (established[p] /\ pc[p] \in Ended) => closeCalls[p] = 1

\* C10  (as claimed)  Ordering, line-oriented: the bytes handed to the
\* channel are at all times a prefix of the operator's bytes (with the delimiter the program
\* adds to an undelimited last line at end-of-input), so lines go out whole
\* and in order; and what is printed, with what is still buffered, is the
\* received byte stream in its order.
OperatorBytes(p) ==
  IF InputEnded(p) /\ Trailing(Entered(p)) # <<>>
  THEN Entered(p) \o <<NL>> ELSE Entered(p)
C10_Ordering ==
  variant = "line" =>
    \A p \in Procs :
      /\ IsPrefix(wire[p], OperatorBytes(p))
      /\ Rejoin(OutMsgs(p)) \o incoming_buffer[p] = rcvd[p]

\* C11  Inbound Buffer invariant, line-oriented: whenever a pump is at the
\* readiness wait, incoming_buffer holds no '\n' byte, and every delimiter
\* received so far has had its message printed (each receive step drained
\* every complete message that was there after the append).
C11_BufferAtRest ==
  variant = "line" =>
    \A p \in Procs :
      pc[p] = "select" =>
        /\ Find(incoming_buffer[p], NL) = 0
        /\ Len(OutMsgs(p)) = NumLines(rcvd[p])

\* At the readiness wait after a chunk that held a delimiter and the
\* beginning of the next message.
C11_Witness ==
  /\ variant = "line"
  /\ \E p \in Procs :
       /\ pc[p] = "select"
       /\ NumLines(rcvd[p]) >= 1
       /\ incoming_buffer[p] # <<>>

\* C12  A message is emitted only once its delimiter has been received: as
\* many messages have been emitted as delimiters were fed; while no
\* delimiter has arrived nothing is emitted and every byte fed is in the
\* buffer; and no emitted message holds a '\n' byte.
C12_EmitOnlyOnDelimiter ==
  LET fed == SubSeq(fInput, 1, fFed)
  IN /\ Len(fEmitted) = NumLines(fed)
     /\ NumLines(fed) = 0 => fEmitted = <<>> /\ fBuffer = fed
     /\ \A i \in 1..Len(fEmitted) : Find(fEmitted[i], NL) = 0

\* "ab" arrived first and nothing was emitted (the buffer held it); then the
\* delimiter arrived and the one message "ab" was emitted.
C12_Witness ==
  /\ fInput = <<97, 98, NL>>
  /\ fFed = 3
  /\ fChunks = 2
  /\ fEmitted = << <<97, 98>> >>
  /\ fBuffer = <<>>

\* C13  (as claimed)  An accept call that ends with EINTR is retried: it
\* never makes listen_and_accept fail, so no process reports "accept()
\* failed" or exits because its accept was interrupted.
C13_AcceptRetriedOnEintr ==
  \A p \in Procs :
    reason[p] = "EINTR" => pc[p] # "exited" /\ cerr[p] # "accept"

\* C14  (as claimed)  A call of the pump that ends with EINTR (select,
\* recv, the read of descriptor 0, send) ends no session and changes nothing else: every
\* process in the pump stays in it; incoming_buffer, the text being sent
\* with its offset and bytes left, the output, the bytes sent, received
\* and waiting on descriptor 0 are as before; and after the retry the
\* bytes sent are still a prefix of the operator's, none lost or repeated.
C14_EintrAltersNothing ==
  [][/\ intrs' # intrs =>
          /\ \A p \in Procs : pc[p] \in InPump => pc'[p] \in InPump
          /\ UNCHANGED <<incoming_buffer, line, off, left, out, wire, rcvd,
                         kbuf, keof, cinbuf, eofbit, typed, exit, reason,
                         cerr,
                         closeCalls, conn, term>>
     /\ intrs > 0 =>
          \A p \in Procs : /\ IsPrefix(wire'[p], OperatorBytes(p)')
                           /\ IsPrefix(rcvd'[p], wire'[Other(p)])]_vars

\* C15  Setup failures are fatal before any session: a process whose
\* establisher reported a failure (socket, bind, listen, accept, address
\* parsing, connect) has exited with status 1, holds no open socket, never
\* held the connection, and read, sent, received and printed nothing
\* (whatever its operator typed is still unread on descriptor 0); and no
\* process runs its establisher more than once.
SetupDiags == {"socket", "bind", "listen", "accept", "inet_pton", "connect"}
C15_SetupFailuresFatal ==
  \A p \in Procs :
    /\ socks[p] <= 1
    /\ cerr[p] \in SetupDiags =>
         /\ pc[p] = "exited" /\ exit[p] = 1
         /\ lfd[p] \in {"none", "closed"}
         /\ conn[p] \in {"none", "closed"}
         /\ ~established[p]
         /\ kbuf[p] = typed[p] /\ cinbuf[p] = <<>> /\ line[p] = <<>>
         /\ wire[p] = <<>> /\ rcvd[p] = <<>>
         /\ out[p] = <<>>

\* connect failed for one process (bad address or refused) after its
\* socket was created, while the other got as far as listening.
C15_Witness ==
  \E p \in Procs :
    /\ cerr[p] \in {"inet_pton", "connect"}
    /\ socks[p] = 1 /\ closeCalls[p] = 1
    /\ lfd[Other(p)] # "none"

\* C16  Role symmetry: whenever the listener and the dialer, connected to
\* each other, are in the same local state (same position in the loop, same
\* local input, same bytes sent, received, buffered and printed), every
\* step one of them can take, on whatever event, is a step the other can
\* take too, with the same result: the same bytes sent, the same messages
\* printed, the same end and the same exit status.  So on identical event
\* sequences the two roles go through identical states.  The listener's
\* steps are those of the loop in the --listen branch and the dialer's
\* those of the loop in the --connect branch.
Local(p) ==
  <<pc[p], ready[p], conn[p], closeCalls[p], term[p], kbuf[p], keof[p],
    cinbuf[p], eofbit[p], line[p], off[p], left[p], incoming_buffer[p], out[p],
    exit[p], reason[p], cerr[p], typed[p], stdinErr[p], wire[p], rcvd[p]>>
SessionStep(q) ==
  \/ EnterPump(q)
  \/ Iterate(q)
  \/ SelectInterrupted(q)
  \/ SelectFails(q)
  \/ GetlineResumes(q)
  \/ SendCall(q)
  \/ RecvAfterSend(q)
  \/ Type(q)
  \/ CtrlD(q)
  \/ CloseInput(q)
  \/ Interrupt(q)
SameLocalState ==
  /\ IsListen(argv[1]) /\ IsConnect(argv[2])
  /\ established[1] /\ established[2]
  /\ Local(1) = Local(2)
C16_RoleSymmetry ==
  [][SameLocalState =>
       \A p \in Procs :
         Local(p)' # Local(p) =>
           \E v \in {Local(p)'} :
             ENABLED (SessionStep(Other(p)) /\ Local(Other(p))' = v)]_vars

\* Listener and dialer have each sent a line, received the other's and
\* printed it, and are in the same local state.
C16_Witness ==
  /\ SameLocalState
  /\ variant = "line"
  /\ Len(out[1]) = 1 /\ Len(out[2]) = 1
  /\ wire[1] # <<>>

\* C17  (as claimed)  The pump leaves the loop only on one of the four
\* terminal conditions (local end-of-input; zero-length read from the peer;
\* unrecoverable error on local input, channel or readiness wait; failed
\* send), a pump on which one of them fired has ended (so a read of local
\* input that failed with an errno other than EINTR has ended it), and a
\* process that has ended does nothing more: no read of local input, no
\* recv, no send, no message printed.
TerminalConditions == FatalReasons \cup CleanReasons
C17_TerminalAbsorbing ==
  [][\A p \in Procs :
       /\ (pc[p] \in InPump /\ pc'[p] = "exited")
            => reason'[p] \in TerminalConditions
       /\ reason'[p] \in TerminalConditions => pc'[p] = "exited"
       /\ stdinErr'[p] = "EIO" => pc'[p] \in Ended
       /\ (pc[p] \in InPump /\ pc'[p] \in InPump) => reason'[p] = ""
       /\ pc[p] \in Ended => Local(p)' = Local(p)]_vars

\* C18  listen_and_accept accepts at most one connection and releases the
\* listening socket on every return path: no process goes back to accept
\* once it has left it, a listener that is past accept (with a connection
\* or with an error) has no open listening socket, and when accept
\* succeeded the process holds the one connected socket.
C18_OneAcceptListenReleased ==
  [][\A p \in Procs :
       /\ pc'[p] = "accept" => pc[p] \in {"main", "accept"}
       /\ (IsListen(argv[p]) /\ pc'[p] \notin {"main", "accept"})
            => lfd'[p] # "open"
       /\ (pc[p] = "accept" /\ pc'[p] = "connected")
            => established'[p] /\ conn'[p] = "open" /\ socks'[p] = 1]_vars

\* A listener failed in accept after a peer had connected: the listening
\* socket is closed and no connection is held.
C18_Witness ==
  \E p \in Procs :
    /\ IsListen(argv[p])
    /\ cerr[p] = "accept"
    /\ lfd[p] = "closed"
    /\ ~established[p]
    /\ established[Other(p)]

\* C19  A send is retried at the byte level only.  Inside send_all_bytes
\* the offset and the bytes left add up to the message, at least one byte
\* is left, and the bytes accepted for it are its first `off` bytes; when
\* the function returns true exactly the rest went out; when a call fails
\* or takes nothing the process leaves the loop on the send failure, and
\* after a send failure nothing more is sent.
SendInv(p) ==
  pc[p] = "send" =>
    /\ left[p] >= 1
    /\ off[p] + left[p] = Len(line[p])
    /\ Len(wire[p]) >= off[p]
    /\ SubSeq(wire[p], Len(wire[p]) - off[p] + 1, Len(wire[p]))
         = SubSeq(line[p], 1, off[p])
C19_ByteLevelRetryOnly ==
  [][\A p \in Procs :
       /\ SendInv(p)'
       /\ (pc[p] = "send" /\ pc'[p] \in {"select", "recv"})
            => wire'[p] = wire[p] \o SubSeq(line[p], off[p] + 1, Len(line[p]))
       /\ (pc[p] = "send" /\ pc'[p] = "exited")
            => reason'[p] = "send_failed" /\ wire'[p] = wire[p]
       /\ reason[p] = "send_failed"
            => wire'[p] = wire[p] /\ pc'[p] = "exited"]_vars

\* A send failed after a part of the line had been accepted: the rest of
\* the line was never sent.
C19_Witness ==
  \E p \in Procs :
    /\ reason[p] = "send_failed"
    /\ typed[p] = <<97, NL>>
    /\ wire[p] = <<97>>

\* C20  (as claimed)  A pump is suspended at the readiness wait only: while
\* bytes from the peer are waiting on the channel, the process is not
\* blocked reading local input.
BlockedInGetline(p) ==
  pc[p] = "getline" /\ ~StdinReadable(kbuf[p], keof[p], Canonical)
C20_SuspendsOnlyAtReadinessWait ==
  \A p \in Procs : Chan(p) # <<>> => ~BlockedInGetline(p)

\* C21  Keystroke variant: every character read from descriptor 0 (typed
\* before the loop or during it) has been echoed, in the order typed,
\* before it is sent; the bytes sent are the
\* echoed characters, one byte each with nothing added, all of them but
\* at most the last, which is then being sent or was lost to a send
\* failure or to the end of the process; and the bytes written to the
\* output from the channel are the received bytes, unmodified, in order.
RECURSIVE BytesTagged(_, _)
BytesTagged(o, tag) ==
  IF o = <<>> THEN <<>>
  ELSE (IF Head(o).tag = tag THEN Head(o).bytes ELSE <<>>)
         \o BytesTagged(Tail(o), tag)
C21_KeystrokeStream ==
  variant = "key" =>
    \A p \in Procs :
      LET echoed == BytesTagged(out[p], "echo")
      IN /\ echoed \o kbuf[p] = typed[p]
         /\ IsPrefix(wire[p], echoed)
         /\ Len(echoed) <= Len(wire[p]) + 1
         /\ Len(echoed) = Len(wire[p]) + 1 =>
              \/ pc[p] = "send" /\ line[p] = <<echoed[Len(echoed)]>>
              \/ reason[p] = "send_failed"
              \/ pc[p] = "killed"
         /\ BytesTagged(out[p], "peer") = rcvd[p]

\* Ctrl+D was pressed before the terminal was in raw mode and "a" after:
\* the byte 0 and the "a" were read, echoed, sent as they are and written
\* to the peer's output.
C21_Witness ==
  /\ variant = "key"
  /\ \E p \in Procs :
       /\ typed[p] = <<NUL, 97>>
       /\ BytesTagged(out[p], "echo") = <<NUL, 97>>
       /\ wire[p] = <<NUL, 97>>
       /\ BytesTagged(out[Other(p)], "peer") = <<NUL, 97>>

\* C22  Line-oriented: received bytes that no '\n' follows are never
\* printed.  At all times, and so when the process has ended, the messages
\* printed are the received bytes up to and including the last '\n'
\* received, and what came after it is in incoming_buffer, which the end
\* of the process discards.
C22_UndelimitedTailDiscarded ==
  variant = "line" =>
    \A p \in Procs :
      /\ Rejoin(OutMsgs(p))
           = SubSeq(rcvd[p], 1, KthNL(rcvd[p], NumLines(rcvd[p])))
      /\ incoming_buffer[p] = Trailing(rcvd[p])

\* A process ended on the peer's close with a printed message behind it and
\* an undelimited byte in incoming_buffer that was never printed.
C22_Witness ==
  /\ variant = "line"
  /\ \E p \in Procs :
       /\ pc[p] = "exited" /\ reason[p] = "peer_closed"
       /\ rcvd[p] = <<NL, 97>>
       /\ OutMsgs(p) = << <<>> >>
       /\ incoming_buffer[p] = <<97>>

\* C23  (as claimed)  Line-oriented: a complete line that the local input
\* source has delivered and that has not yet gone out in full is
\* eventually transmitted, or the session ends, with no further local
\* input and no channel traffic needed.
PendingLine(p) ==
  /\ variant = "line"
  /\ pc[p] \in InPump
  /\ Len(wire[p]) < KthNL(Entered(p), NumLines(Entered(p)))
C23_DeliveredLinesTransmitted ==
  \A p \in Procs : PendingLine(p) ~> ~PendingLine(p)

\* C24  send_all_bytes terminates: with EINTR only finitely often, every
\* call returns; each send call that is not interrupted either lowers the
\* bytes left, by at least one and to no less than zero, or ends the loop
\* with false; the result is true exactly when every byte of the message
\* was accepted; and for an empty message it is true with no send call.
C24_SendAllTerminates ==
  /\ <>(sRet # "running")
  /\ [](sRet = "true" <=> sWire = sText)
  /\ [](Len(sText) = 0 => sRet = "true" /\ sCalls = 0)
  /\ [][(sCalls' = sCalls + 1 /\ sIntr' = sIntr) =>
          \/ /\ sLeft' < sLeft /\ sLeft' >= 0
             /\ sRet' = (IF sLeft' = 0 THEN "true" ELSE "running")
          \/ sLeft' = sLeft /\ sRet' = "false"]_vars

\* A call returned true after an interrupted send call and two that each
\* accepted a part of the message.
C24_Witness ==
  /\ sRet = "true"
  /\ sIntr = 1
  /\ sCalls = 3
  /\ sShort
  /\ Len(sText) >= 2

====
